---- MODULE Spec2Model ----
(***************************************************************************)
(* Model of the GoQuant trade simulator (src/main.py): the order book      *)
(* (OrderBook), the cost engine (MarketImpactCalculator) and the three     *)
(* asyncio tasks of TradeSimulator (connect_websocket, update_ui,          *)
(* handle_events).  asyncio is cooperative: a task runs from one await to  *)
(* the next without interruption, so one action is one such stretch.       *)
(*                                                                         *)
(* Python floats are modelled as exact rationals <<n, d>> (d > 0, lowest   *)
(* terms); rounding is not modelled.  sqrt and exp have no rational value: *)
(* a result that goes through them is kept as the exact arguments they     *)
(* are applied to (see calculate_market_impact, estimate_maker_taker).     *)
(***************************************************************************)
EXTENDS Integers, Sequences, FiniteSets, TLC

VARIABLES
    orderbook,        \* simulator.orderbook: the fields of OrderBook
    calc_volatility,  \* simulator.market_impact_calculator.volatility
    running,          \* simulator.running
    quantity,         \* simulator.quantity
    volatility,       \* simulator.volatility
    fee_tier,         \* simulator.fee_tier
    order_type,       \* simulator.order_type
    process_times,    \* simulator.process_times
    last_tick_time,   \* simulator.last_tick_time
    ws_pc,            \* where connect_websocket is suspended
    retry_count,      \* connect_websocket's local retry_count
    start_time,       \* connect_websocket's local start_time
    ui_pc,            \* where update_ui is suspended
    ev_pc,            \* where handle_events is suspended
    main_pc,          \* where main is
    results,          \* update_ui's local results: <<>> before the first report
    now,              \* what time.time() returns
    feed,             \* the websocket server: "live" or "replay"
    recv_count,       \* messages websocket.recv() has returned so far
    asks_from,        \* number of the message self.asks was assigned from
    bids_from,        \* number of the message self.bids was assigned from
    applied_from      \* number of the last message update() returned normally on

vars == <<orderbook, calc_volatility, running, quantity, volatility, fee_tier,
          order_type, process_times, last_tick_time, ws_pc, retry_count,
          start_time, ui_pc, ev_pc, main_pc, results, now, feed, recv_count,
          asks_from, bids_from, applied_from>>

----------------------------------------------------------------------------
(* Bounds of the model.                                                    *)

\* messages the live feed delivers in one run
MaxLive == 2
\* messages the replayed feed delivers in one run
ReplayLen == 332
\* largest integer a numeric string of a message spells
MaxNum == 1060

(* Constants of the program.                                               *)
MAX_ORDERBOOK_LEVELS == 50
max_history == 300
max_retries == 5
MaxProcessTimes == 100
RecentVolumes == 10
SecondsPerDay == 86400
\* market_cap * 0.05 for the default market_cap = 1e10 (get_net_cost never
\* passes another one)
FallbackDailyVolume == 500000000

----------------------------------------------------------------------------
(* Python floats as exact rationals.                                       *)

Abs(i) == IF i < 0 THEN -i ELSE i

RECURSIVE Gcd(_, _)
Gcd(a, b) == IF b = 0 THEN a ELSE Gcd(b, a % b)

\* the rational n/d in lowest terms with a positive denominator (d # 0)
Rat(n, d) ==
    LET g == Gcd(Abs(n), Abs(d))
        s == IF d < 0 THEN -1 ELSE 1
    IN  <<(s * n) \div g, (s * d) \div g>>

R(i) == <<i, 1>>
RAdd(x, y) == Rat(x[1] * y[2] + y[1] * x[2], x[2] * y[2])
RSub(x, y) == Rat(x[1] * y[2] - y[1] * x[2], x[2] * y[2])
RMul(x, y) == Rat(x[1] * y[1], x[2] * y[2])
\* x / y for y # 0; every use is guarded by RIsZero, as Python raises
\* ZeroDivisionError on a zero float divisor
RDiv(x, y) == Rat(x[1] * y[2], x[2] * y[1])
RIsZero(x) == x[1] = 0
RLe(x, y) == x[1] * y[2] <= y[1] * x[2]
RLt(x, y) == x[1] * y[2] < y[1] * x[2]
RMin(x, y) == IF RLe(x, y) THEN x ELSE y

\* s[lo] + ... + s[hi]; exact sums do not depend on the grouping, so the
\* range is halved to keep the evaluation shallow
RECURSIVE RSumRange(_, _, _)
RSumRange(s, lo, hi) ==
    IF lo > hi THEN R(0)
    ELSE IF lo = hi THEN s[lo]
    ELSE LET m == (lo + hi) \div 2
         IN  RAdd(RSumRange(s, lo, m), RSumRange(s, m + 1, hi))

\* sum(s)
RSum(s) == RSumRange(s, 1, Len(s))

----------------------------------------------------------------------------
(* Parsing: float(str) and datetime.fromisoformat(str).                    *)

\* the decimal spelling of each integer a message can carry
NumStr == [i \in 0..MaxNum |-> ToString(i)]

\* the number each numeric string spells
FloatTable ==
    [s \in {NumStr[i] : i \in 0..MaxNum} |->
        CHOOSE i \in 0..MaxNum : NumStr[i] = s]

\* float(s) raises ValueError unless s spells a number
IsNumeric(s) == s \in DOMAIN FloatTable

\* float(s) for a numeric s
Float(s) == R(FloatTable[s])

\* the timestamps datetime.fromisoformat(s.replace("Z", "+00:00")) accepts,
\* with the second of the day each denotes
IsoTable ==
    [s \in {"2025-05-04T10:39:13Z", "2025-05-04T10:39:14Z",
            "2025-05-04T10:39:15+00:00"} |->
        CASE s = "2025-05-04T10:39:13Z" -> 38353
          [] s = "2025-05-04T10:39:14Z" -> 38354
          [] s = "2025-05-04T10:39:15+00:00" -> 38355]

IsIsoformat(s) == s \in DOMAIN IsoTable

\* the datetime parsed from s; None is <<>>
Fromisoformat(s) == <<IsoTable[s]>>

\* every (price, qty) pair of a level list is numeric
LevelsNumeric(levels) ==
    \A i \in 1..Len(levels) :
        IsNumeric(levels[i][1]) /\ IsNumeric(levels[i][2])

\* [(float(price), float(qty)) for price, qty in levels]
ParseLevels(levels) ==
    [i \in 1..Len(levels) |-> <<Float(levels[i][1]), Float(levels[i][2])>>]

\* seq[:n]
Take(seq, n) == SubSeq(seq, 1, IF Len(seq) < n THEN Len(seq) ELSE n)

\* seq[-n:]
Last(seq, n) == SubSeq(seq, IF Len(seq) > n THEN Len(seq) - n + 1 ELSE 1, Len(seq))

----------------------------------------------------------------------------
(* list.sort(key = price): a stable sort; reverse = True keeps it stable.   *)

\* where list.sort puts the i-th level: behind every level that sorts before
\* it and behind the earlier levels of the same price
SortedPosition(levels, i, reverse) ==
    1 + Cardinality({j \in 1..Len(levels) :
            \/ IF reverse THEN RLt(levels[i][1], levels[j][1])
                          ELSE RLt(levels[j][1], levels[i][1])
            \/ levels[j][1] = levels[i][1] /\ j < i})

\* levels.sort(key=lambda x: x[0], reverse=reverse)
SortLevels(levels, reverse) ==
    [k \in 1..Len(levels) |->
        levels[CHOOSE i \in 1..Len(levels) :
                   SortedPosition(levels, i, reverse) = k]]

\* self.asks.sort(key=lambda x: x[0])
SortAsks(levels) == SortLevels(levels, FALSE)

\* SortBids without reverse=True
SortBidsAscending(levels) == SortLevels(levels, FALSE)

\* self.bids.sort(key=lambda x: x[0], reverse=True)
SortBids(levels) == SortLevels(levels, TRUE)

----------------------------------------------------------------------------
(* OrderBook.                                                              *)

\* OrderBook.__init__ at time t
NewOrderBook(t) ==
    [asks |-> <<>>, bids |-> <<>>, timestamp |-> <<>>, symbol |-> "",
     exchange |-> "", last_update_time |-> t, price_history |-> <<>>,
     spread_history |-> <<>>, mid_price_history |-> <<>>,
     volume_history |-> <<>>]

\* sum(qty for price, qty in self.asks if price <= bound)
NearAskVolume(levels, bound) ==
    RSum([i \in 1..Len(levels) |->
            IF RLe(levels[i][1], bound) THEN levels[i][2] ELSE R(0)])

\* sum(qty for price, qty in self.bids if price >= bound)
NearBidVolume(levels, bound) ==
    RSum([i \in 1..Len(levels) |->
            IF RLe(bound, levels[i][1]) THEN levels[i][2] ELSE R(0)])

\* TrimHistory cutting price_history alone
TrimPriceHistoryOnly(ob) ==
    IF Len(ob.price_history) > max_history
    THEN [ob EXCEPT !.price_history = Last(@, max_history)]
    ELSE ob

\* TrimHistory keeping the oldest max_history entries instead of the latest
TrimHistoryKeepOldest(ob) ==
    IF Len(ob.price_history) > max_history
    THEN [ob EXCEPT !.price_history = Take(@, max_history),
                    !.spread_history = Take(@, max_history),
                    !.mid_price_history = Take(@, max_history),
                    !.volume_history = Take(@, max_history)]
    ELSE ob

\* lines 64-69 of update: the four series cut to their last max_history
\* entries once price_history is longer than that
TrimHistory(ob) ==
    IF Len(ob.price_history) > max_history
    THEN [ob EXCEPT !.price_history = Last(@, max_history),
                    !.spread_history = Last(@, max_history),
                    !.mid_price_history = Last(@, max_history),
                    !.volume_history = Last(@, max_history)]
    ELSE ob

\* lines 49-69 of update: the history point of a two-sided book
AppendHistory(ob, current_time) ==
    IF ob.asks # <<>> /\ ob.bids # <<>>
    THEN LET best_ask == ob.asks[1][1]
             best_bid == ob.bids[1][1]
             mid_price == RDiv(RAdd(best_ask, best_bid), R(2))
             spread == RSub(best_ask, best_bid)
             threshold == RMul(mid_price, <<1, 1000>>)
             near_ask_volume == NearAskVolume(ob.asks, RAdd(mid_price, threshold))
             near_bid_volume == NearBidVolume(ob.bids, RSub(mid_price, threshold))
         IN  TrimHistory(
               [ob EXCEPT
                  !.price_history = Append(@, <<current_time, mid_price>>),
                  !.spread_history = Append(@, <<current_time, spread>>),
                  !.mid_price_history = Append(@, mid_price),
                  !.volume_history =
                      Append(@, <<current_time,
                                  RAdd(near_ask_volume, near_bid_volume)>>)])
    ELSE ob

\* self.asks / self.bids after the two sort calls of update
SortBook(ob) ==
    [ob EXCEPT !.asks = SortAsks(@), !.bids = SortBids(@)]

\* OrderBook.update(data) on the book ob at time t.  The statements run in
\* the order of the source and an exception leaves what was assigned before
\* it: raised tells whether update raised, asks_set and bids_set whether
\* self.asks and self.bids were assigned.
update(ob, data, t) ==
    LET Raised(o, a, b) ==
            [raised |-> TRUE, ob |-> o, asks_set |-> a, bids_set |-> b]
    IN
    IF ~("timestamp" \in DOMAIN data /\ IsIsoformat(data.timestamp))
    THEN Raised(ob, FALSE, FALSE)
    ELSE
    LET ob1 == [ob EXCEPT !.timestamp = Fromisoformat(data.timestamp)] IN
    IF "symbol" \notin DOMAIN data THEN Raised(ob1, FALSE, FALSE)
    ELSE
    LET ob2 == [ob1 EXCEPT !.symbol = data.symbol] IN
    IF "exchange" \notin DOMAIN data THEN Raised(ob2, FALSE, FALSE)
    ELSE
    LET ob3 == [ob2 EXCEPT !.exchange = data.exchange] IN
    IF ~("asks" \in DOMAIN data
         /\ LevelsNumeric(Take(data.asks, MAX_ORDERBOOK_LEVELS)))
    THEN Raised(ob3, FALSE, FALSE)
    ELSE
    LET ob4 == [ob3 EXCEPT
                  !.asks = ParseLevels(Take(data.asks, MAX_ORDERBOOK_LEVELS))] IN
    IF ~("bids" \in DOMAIN data
         /\ LevelsNumeric(Take(data.bids, MAX_ORDERBOOK_LEVELS)))
    THEN Raised(ob4, TRUE, FALSE)
    ELSE
    LET ob5 == [ob4 EXCEPT
                  !.bids = ParseLevels(Take(data.bids, MAX_ORDERBOOK_LEVELS))]
        ob6 == [SortBook(ob5) EXCEPT !.last_update_time = t]
    IN  [raised |-> FALSE, ob |-> AppendHistory(ob6, t),
         asks_set |-> TRUE, bids_set |-> TRUE]

\* str.lower() on the identifiers the model passes through it
Lower(str) ==
    CASE str = "BUY" -> "buy"
      [] str = "SELL" -> "sell"
      [] str = "VIP0" -> "vip0"
      [] str = "VIP1" -> "vip1"
      [] str = "Vip5" -> "vip5"
      [] str = "VIP9" -> "vip9"
      [] OTHER -> str

\* the for loop of get_liquidity_at_level over the levels still to visit
RECURSIVE WalkLevels(_, _, _, _)
WalkLevels(levels, remaining_amount, executed_quantity, total_cost) ==
    IF levels = <<>> \/ RLe(remaining_amount, R(0))
    THEN [raised |-> FALSE, executed_quantity |-> executed_quantity,
          total_cost |-> total_cost]
    ELSE LET price == Head(levels)[1]
             level_volume == RMul(price, Head(levels)[2])
             take_volume == RMin(remaining_amount, level_volume)
         IN  IF RIsZero(price)
             THEN [raised |-> TRUE, executed_quantity |-> executed_quantity,
                   total_cost |-> total_cost]
             ELSE LET take_quantity == RDiv(take_volume, price)
                  IN  WalkLevels(Tail(levels),
                                 RSub(remaining_amount, take_volume),
                                 RAdd(executed_quantity, take_quantity),
                                 RAdd(total_cost, RMul(take_quantity, price)))

\* OrderBook.get_liquidity_at_level(usd_amount, side)
get_liquidity_at_level(ob, usd_amount, side) ==
    IF ob.asks = <<>> \/ ob.bids = <<>>
    THEN [raised |-> FALSE, avg_price |-> R(0), executed_quantity |-> R(0)]
    ELSE LET levels == IF Lower(side) = "buy" THEN ob.asks ELSE ob.bids
             w == WalkLevels(levels, usd_amount, R(0), R(0))
         IN  [raised |-> w.raised,
              avg_price |-> IF ~w.raised /\ RLt(R(0), w.executed_quantity)
                            THEN RDiv(w.total_cost, w.executed_quantity)
                            ELSE R(0),
              executed_quantity |-> w.executed_quantity]

----------------------------------------------------------------------------
(* MarketImpactCalculator.  A computation that raises returns raised = TRUE *)
(* and a value nobody reads.                                               *)

\* MarketImpactCalculator.calculate_slippage(quantity, side)
calculate_slippage(ob, qty, side) ==
    IF ob.asks = <<>> \/ ob.bids = <<>>
    THEN [raised |-> FALSE, value |-> R(0)]
    ELSE LET mid_price == RDiv(RAdd(ob.asks[1][1], ob.bids[1][1]), R(2))
             liq == get_liquidity_at_level(ob, qty, side)
             expected_price == liq.avg_price
         IN  IF liq.raised THEN [raised |-> TRUE, value |-> R(0)]
             ELSE IF RIsZero(expected_price)
             THEN [raised |-> FALSE, value |-> R(0)]
             ELSE IF side = "buy"
             THEN IF RIsZero(mid_price) THEN [raised |-> TRUE, value |-> R(0)]
                  ELSE [raised |-> FALSE,
                        value |-> RMul(RSub(RDiv(expected_price, mid_price), R(1)),
                                       R(100))]
             ELSE [raised |-> FALSE,
                   value |-> RMul(RSub(RDiv(mid_price, expected_price), R(1)),
                                  R(100))]

\* the value 0.0 of an impact
ZeroImpact == [sigma |-> R(0), T |-> R(0), ratio |-> R(0)]

\* an impact [sigma, T, ratio] stands for sigma * sqrt(T) * sqrt(ratio) * 100
ImpactIsZero(impact) ==
    RIsZero(impact.sigma) \/ RIsZero(impact.T) \/ RIsZero(impact.ratio)

\* vol for _, vol in volume_history
Volumes(volume_history) ==
    [i \in 1..Len(volume_history) |-> volume_history[i][2]]

\* the daily volume estimate of calculate_market_impact (lines 123-128)
DailyVolumeEstimate(ob) ==
    IF Len(ob.volume_history) > RecentVolumes
    THEN LET recent_volumes == Volumes(Last(ob.volume_history, RecentVolumes))
             avg_tick_volume == RDiv(RSum(recent_volumes), R(Len(recent_volumes)))
         IN  RMul(avg_tick_volume, R(SecondsPerDay))
    ELSE R(FallbackDailyVolume)

\* MarketImpactCalculator.calculate_market_impact(quantity, side) with the
\* calculator's volatility vol
calculate_market_impact(ob, vol, qty, side) ==
    IF ob.mid_price_history = <<>>
    THEN [raised |-> FALSE, value |-> ZeroImpact]
    ELSE LET daily_volume_estimate == DailyVolumeEstimate(ob)
             sigma == IF RLt(R(0), vol) THEN vol ELSE <<1, 50>>
         IN  IF RIsZero(daily_volume_estimate)
             THEN [raised |-> TRUE, value |-> ZeroImpact]
             ELSE [raised |-> FALSE,
                   value |-> [sigma |-> sigma, T |-> <<1, SecondsPerDay>>,
                              ratio |-> RDiv(qty, daily_volume_estimate)]]

\* A percentage [kind, x]: "const" is the number x, "taker" is
\* 100 / (1 + exp(x)) and "maker" is 100 - 100 / (1 + exp(x)).
Const(x) == [kind |-> "const", x |-> x]

\* estimate_maker_taker_proportion returning (100, 0) on an empty book
estimate_maker_taker_swapped(ob, qty) ==
    IF ob.asks = <<>> \/ ob.bids = <<>>
    THEN [raised |-> FALSE, maker_pct |-> Const(R(100)), taker_pct |-> Const(R(0))]
    ELSE LET best_ask_size == RMul(ob.asks[1][2], ob.asks[1][1])
             best_bid_size == RMul(ob.bids[1][2], ob.bids[1][1])
             divisor == RMul(R(2), qty)
         IN  IF RIsZero(divisor)
             THEN [raised |-> TRUE, maker_pct |-> Const(R(0)),
                   taker_pct |-> Const(R(0))]
             ELSE LET relative_size ==
                          RDiv(RAdd(best_ask_size, best_bid_size), divisor)
                  IN  [raised |-> FALSE,
                       maker_pct |-> [kind |-> "maker",
                                      x |-> RSub(relative_size, R(1))],
                       taker_pct |-> [kind |-> "taker",
                                      x |-> RSub(relative_size, R(1))]]

\* MarketImpactCalculator.estimate_maker_taker_proportion(quantity)
estimate_maker_taker_proportion(ob, qty) ==
    IF ob.asks = <<>> \/ ob.bids = <<>>
    THEN [raised |-> FALSE, maker_pct |-> Const(R(0)), taker_pct |-> Const(R(100))]
    ELSE LET best_ask_size == RMul(ob.asks[1][2], ob.asks[1][1])
             best_bid_size == RMul(ob.bids[1][2], ob.bids[1][1])
             divisor == RMul(R(2), qty)
         IN  IF RIsZero(divisor)
             THEN [raised |-> TRUE, maker_pct |-> Const(R(0)),
                   taker_pct |-> Const(R(0))]
             ELSE LET relative_size ==
                          RDiv(RAdd(best_ask_size, best_bid_size), divisor)
                  IN  [raised |-> FALSE,
                       maker_pct |-> [kind |-> "maker",
                                      x |-> RSub(relative_size, R(1))],
                       taker_pct |-> [kind |-> "taker",
                                      x |-> RSub(relative_size, R(1))]]

\* fee_structure of calculate_fees, rates as rationals
fee_structure ==
    [tier \in {"vip0", "vip1", "vip2", "vip3", "vip4", "vip5"} |->
        CASE tier = "vip0" -> [maker |-> <<8, 10000>>, taker |-> <<10, 10000>>]
          [] tier = "vip1" -> [maker |-> <<7, 10000>>, taker |-> <<9, 10000>>]
          [] tier = "vip2" -> [maker |-> <<6, 10000>>, taker |-> <<8, 10000>>]
          [] tier = "vip3" -> [maker |-> <<5, 10000>>, taker |-> <<7, 10000>>]
          [] tier = "vip4" -> [maker |-> <<3, 10000>>, taker |-> <<5, 10000>>]
          [] tier = "vip5" -> [maker |-> <<0, 10000>>, taker |-> <<3, 10000>>]]

\* TierFees looking the identifier up as it is written
TierFeesCaseSensitive(tier) ==
    IF tier \in DOMAIN fee_structure
    THEN fee_structure[tier]
    ELSE fee_structure["vip0"]

\* fee_structure.get(fee_tier.lower(), fee_structure["vip0"])
TierFees(tier) ==
    IF Lower(tier) \in DOMAIN fee_structure
    THEN fee_structure[Lower(tier)]
    ELSE fee_structure["vip0"]

\* A fee [maker_pct, taker_pct, maker_fee, taker_fee] stands for
\* (maker_pct/100 * maker_fee + taker_pct/100 * taker_fee) * 100.
\* MarketImpactCalculator.calculate_fees(quantity, fee_tier)
calculate_fees(ob, qty, tier) ==
    LET tier_fees == TierFees(tier)
        split == estimate_maker_taker_proportion(ob, qty)
    IN  [raised |-> split.raised,
         value |-> [maker_pct |-> split.maker_pct, taker_pct |-> split.taker_pct,
                    maker_fee |-> Rat(tier_fees.maker[1], tier_fees.maker[2]),
                    taker_fee |-> Rat(tier_fees.taker[1], tier_fees.taker[2])]]

\* the number a fee stands for when both percentages are plain numbers
FeeValue(fee) ==
    RMul(RAdd(RMul(RDiv(fee.maker_pct.x, R(100)), fee.maker_fee),
              RMul(RDiv(fee.taker_pct.x, R(100)), fee.taker_fee)),
         R(100))

\* get_net_cost weighting the fee with the split of another order size
get_net_cost_other_split(ob, vol, qty, tier, side) ==
    LET slippage == calculate_slippage(ob, qty, side)
        fee == calculate_fees(ob, RMul(qty, R(2)), tier)
        impact == calculate_market_impact(ob, vol, qty, side)
        split == estimate_maker_taker_proportion(ob, qty)
    IN  [raised |-> slippage.raised \/ fee.raised \/ impact.raised \/ split.raised,
         slippage_pct |-> slippage.value,
         fee_pct |-> fee.value,
         market_impact_pct |-> impact.value,
         maker_pct |-> split.maker_pct,
         taker_pct |-> split.taker_pct,
         net_cost_pct |-> [slippage_pct |-> slippage.value,
                           fee_pct |-> fee.value,
                           market_impact_pct |-> impact.value]]

\* MarketImpactCalculator.get_net_cost(quantity, fee_tier, side): the
\* report, or raised = TRUE when one of the four computations raises
get_net_cost(ob, vol, qty, tier, side) ==
    LET slippage == calculate_slippage(ob, qty, side)
        fee == calculate_fees(ob, qty, tier)
        impact == calculate_market_impact(ob, vol, qty, side)
        split == estimate_maker_taker_proportion(ob, qty)
    IN  [raised |-> slippage.raised \/ fee.raised \/ impact.raised \/ split.raised,
         slippage_pct |-> slippage.value,
         fee_pct |-> fee.value,
         market_impact_pct |-> impact.value,
         maker_pct |-> split.maker_pct,
         taker_pct |-> split.taker_pct,
         net_cost_pct |-> [slippage_pct |-> slippage.value,
                           fee_pct |-> fee.value,
                           market_impact_pct |-> impact.value]]

----------------------------------------------------------------------------
(* TradeSimulator.                                                         *)

\* sum, max and min over s[lo..hi], the range halved as in RSumRange
RECURSIVE IntSumRange(_, _, _)
IntSumRange(s, lo, hi) ==
    IF lo > hi THEN 0
    ELSE IF lo = hi THEN s[lo]
    ELSE LET m == (lo + hi) \div 2
         IN  IntSumRange(s, lo, m) + IntSumRange(s, m + 1, hi)

IntSum(s) == IntSumRange(s, 1, Len(s))

\* max(s) for a non-empty s
IntMax(s) == CHOOSE x \in {s[i] : i \in 1..Len(s)} : \A i \in 1..Len(s) : s[i] <= x

\* min(s) for a non-empty s
IntMin(s) == CHOOSE x \in {s[i] : i \in 1..Len(s)} : \A i \in 1..Len(s) : x <= s[i]

\* TradeSimulator.get_performance_metrics()
get_performance_metrics(times) ==
    IF times = <<>>
    THEN [avg_latency |-> R(0), max_latency |-> 0, min_latency |-> 0]
    ELSE [avg_latency |-> Rat(IntSum(times), Len(times)),
          max_latency |-> IntMax(times),
          min_latency |-> IntMin(times)]

\* TradeSimulator.get_simulation_results(): the cost report of the
\* calculator (which holds its own copy of the volatility) and the metrics
get_simulation_results ==
    [cost |-> get_net_cost(orderbook, calc_volatility, quantity, fee_tier, "buy"),
     performance |-> get_performance_metrics(process_times)]

\* RecordProcessTime keeping the oldest MaxProcessTimes samples
RecordKeepOldest(times, process_time) ==
    Take(Append(times, process_time), MaxProcessTimes)

\* lines 230-235 of connect_websocket: one more sample in the window
RecordProcessTime(times, process_time) ==
    Last(Append(times, process_time), MaxProcessTimes)

----------------------------------------------------------------------------
(* The websocket server.  An arrival is what one websocket.recv() brings:  *)
(* the time it took to come and the text, which json.loads decodes to data *)
(* or rejects.                                                             *)

Snapshot(timestamp, asks, bids) ==
    [timestamp |-> timestamp, symbol |-> "BTC-USDT-SWAP", exchange |-> "OKX",
     asks |-> asks, bids |-> bids]

\* a dict without one of its keys
Without(data, key) == [k \in DOMAIN data \ {key} |-> data[k]]

Arrival(delay, data) == [delay |-> delay, decodable |-> TRUE, data |-> data]

\* a text json.loads raises JSONDecodeError on
Garbage(delay) ==
    [delay |-> delay, decodable |-> FALSE, data |-> [text |-> "{not json"]]

\* every ordering of a list of at most three levels
Orderings(levels) ==
    {[i \in 1..Len(levels) |-> levels[p[i]]] :
        p \in {q \in [1..Len(levels) -> 1..Len(levels)] :
                 \A i, j \in 1..Len(levels) : i # j => q[i] # q[j]}}

\* a two-sided book whose touch is within 0.1% of the mid price; k moves it
TightAsks(k) ==
    <<<<NumStr[1001 + k], "1">>, <<NumStr[1002 + k], "3">>,
      <<NumStr[1003 + k], "2">>>>
TightBids(k) ==
    <<<<NumStr[1000 - k], "2">>, <<NumStr[999 - k], "3">>>>

\* a two-sided book with nothing within 0.1% of the mid price
WideAsks == <<<<"1010", "1">>>>
WideBids == <<<<"990", "1">>>>

\* more ask levels than MAX_ORDERBOOK_LEVELS, best price last
DeepAsks ==
    [i \in 1..(MAX_ORDERBOOK_LEVELS + 1) |->
        <<NumStr[1002 + MAX_ORDERBOOK_LEVELS - i], "1">>]

T1 == "2025-05-04T10:39:13Z"
T2 == "2025-05-04T10:39:14Z"
T3 == "2025-05-04T10:39:15+00:00"

\* snapshots update() rejects, each with asks and bids the book never held
Malformed ==
    LET fresh == Snapshot(T3, <<<<"1005", "1">>>>, <<<<"995", "1">>>>)
    IN  [bad_timestamp |-> [fresh EXCEPT !.timestamp = "yesterday"],
         no_timestamp |-> Without(fresh, "timestamp"),
         no_symbol |-> Without(fresh, "symbol"),
         no_exchange |-> Without(fresh, "exchange"),
         no_asks |-> Without(fresh, "asks"),
         bad_ask_price |-> [fresh EXCEPT !.asks = <<<<"n/a", "1">>>>],
         bad_ask_qty |-> [fresh EXCEPT !.asks = <<<<"1005", "">>>>],
         no_bids |-> Without(fresh, "bids"),
         bad_bid_price |-> [fresh EXCEPT !.bids = <<<<"abc", "1">>>>],
         bad_bid_qty |-> [fresh EXCEPT !.bids = <<<<"995", "1e">>>>],
         unsorted_asks_bad_bid |->
             [fresh EXCEPT !.asks = <<<<"1003", "2">>, <<"1001", "1">>>>,
                           !.bids = <<<<"abc", "1">>>>]]

\* what the live server may send next: any of these, in any order
LiveArrivals ==
    {Arrival(1, Snapshot(T1, a, b)) :
        a \in Orderings(TightAsks(0)), b \in Orderings(TightBids(0))}
    \cup {Arrival(2, Snapshot(T2, <<<<"1003", "2">>>>, <<>>)),
          Arrival(2, Snapshot(T3, <<>>, <<>>)),
          Arrival(1, Malformed.bad_timestamp),
          Arrival(1, Malformed.bad_bid_price),
          Garbage(1)}

\* the replayed session: what the server sends as its i-th message.  Eleven
\* wide books, every kind of rejected snapshot, then 301 two-sided books in
\* a row (each offered in every ordering of its levels), then more trouble.
ReplayOffers(i) ==
    LET delay == 1 + (i % 2)
        Tight(k) == {Arrival(delay, Snapshot(T1, a, b)) :
                        a \in Orderings(TightAsks(k)),
                        b \in Orderings(TightBids(k))}
        One(data) == {Arrival(delay, data)}
    IN  CASE i = 1 -> Tight(0)
          [] i \in 2..12 -> One(Snapshot(T2, WideAsks, WideBids))
          [] i = 13 -> One(Snapshot(T2, <<<<"1003", "2">>>>, <<>>))
          [] i = 14 -> One(Malformed.bad_bid_price)
          [] i = 15 -> {Garbage(delay)}
          [] i = 16 -> One(Snapshot(T3, <<>>, <<>>))
          [] i = 17 -> One(Snapshot(T1, DeepAsks, TightBids(0)))
          [] i = 18 -> One(Malformed.bad_timestamp)
          [] i = 19 -> One(Malformed.no_timestamp)
          [] i = 20 -> One(Malformed.no_symbol)
          [] i = 21 -> One(Malformed.no_exchange)
          [] i = 22 -> One(Malformed.no_asks)
          [] i = 23 -> One(Malformed.bad_ask_price)
          [] i = 24 -> One(Malformed.bad_ask_qty)
          [] i = 25 -> One(Malformed.no_bids)
          [] i = 26 -> One(Malformed.bad_bid_qty)
          [] i = 27 -> One(Snapshot(T2, <<<<"1001", "0">>>>, <<<<"1000", "0">>>>))
          [] i \in 28..328 -> Tight(i % 3)
          [] i = 329 -> One(Snapshot(T2, <<>>, <<<<"1000", "1">>>>))
          [] i = 330 -> One(Malformed.bad_bid_price)
          [] i = 331 -> One(Malformed.unsorted_asks_bad_bid)
          [] OTHER -> Tight(i % 3)

\* what websocket.recv() can return next
Offered ==
    IF feed = "live"
    THEN IF recv_count < MaxLive THEN LiveArrivals ELSE {}
    ELSE IF recv_count < ReplayLen THEN ReplayOffers(recv_count + 1) ELSE {}

----------------------------------------------------------------------------
(* The state after TradeSimulator.__init__ and main's create_task calls.   *)

InitWith(server) ==
    /\ orderbook = NewOrderBook(0)
    /\ calc_volatility = R(0)
    /\ running = TRUE
    /\ quantity = R(100)
    /\ volatility = <<1, 50>>
    /\ fee_tier = "vip0"
    /\ order_type = "market"
    /\ process_times = <<>>
    /\ last_tick_time = 0
    /\ ws_pc = "loop"
    /\ retry_count = 0
    /\ start_time = 0
    /\ ui_pc = "loop"
    /\ ev_pc = "loop"
    /\ main_pc = "gather"
    /\ results = <<>>
    /\ now = 0
    /\ feed = server
    /\ recv_count = 0
    /\ asks_from = 0
    /\ bids_from = 0
    /\ applied_from = 0

Init == InitWith("live")

InitReplay == InitWith("replay")

----------------------------------------------------------------------------
(* connect_websocket.                                                      *)

params == <<quantity, volatility, fee_tier, order_type>>
book == <<orderbook, asks_from, bids_from, applied_from>>
others == <<ui_pc, ev_pc, main_pc, results>>

\* line 214: the outer while
WsLoop ==
    /\ ws_pc = "loop"
    /\ ws_pc' = IF running /\ retry_count < max_retries
                THEN "connecting" ELSE "done"
    /\ UNCHANGED <<book, params, others, calc_volatility, running,
                   process_times, last_tick_time, retry_count, start_time,
                   now, feed, recv_count>>

\* lines 219-222: the inner while, up to the await of recv; when running is
\* False the task leaves the connection and returns to the outer while
InnerLoop(t) ==
    IF running
    THEN /\ start_time' = t
         /\ last_tick_time' = t
         /\ ws_pc' = "recv"
    ELSE /\ ws_pc' = "loop"
         /\ UNCHANGED <<start_time, last_tick_time>>

\* line 217 succeeds
WsConnected ==
    /\ ws_pc = "connecting"
    /\ retry_count' = 0
    /\ InnerLoop(now)
    /\ UNCHANGED <<book, params, others, calc_volatility, running,
                   process_times, now, feed, recv_count>>

\* WsConnectFailed sleeping and trying again whatever the count
WsConnectFailedNoLimit ==
    /\ ws_pc = "connecting"
    /\ retry_count' = retry_count + 1
    /\ ws_pc' = "retry_sleep"
    /\ UNCHANGED <<book, params, others, calc_volatility, running,
                   process_times, last_tick_time, start_time, now, feed,
                   recv_count>>

\* line 217 raises: lines 247-254
WsConnectFailed ==
    /\ ws_pc = "connecting"
    /\ retry_count' = retry_count + 1
    /\ ws_pc' = IF retry_count + 1 < max_retries THEN "retry_sleep" ELSE "done"
    /\ UNCHANGED <<book, params, others, calc_volatility, running,
                   process_times, last_tick_time, start_time, now, feed,
                   recv_count>>

\* line 251 returns
WsRetryWake ==
    /\ ws_pc = "retry_sleep"
    /\ ws_pc' = "loop"
    /\ UNCHANGED <<book, params, others, calc_volatility, running,
                   process_times, last_tick_time, retry_count, start_time,
                   now, feed, recv_count>>

\* line 224 raises ConnectionClosed: lines 237-239
WsConnectionClosed ==
    /\ ws_pc = "recv"
    /\ ws_pc' = "loop"
    /\ UNCHANGED <<book, params, others, calc_volatility, running,
                   process_times, last_tick_time, retry_count, start_time,
                   now, feed, recv_count>>

\* line 224 returns a text json.loads rejects: lines 240-242
WsRecvUndecodable ==
    /\ ws_pc = "recv"
    /\ \E arrival \in Offered :
        /\ ~arrival.decodable
        /\ now' = now + arrival.delay
        /\ recv_count' = recv_count + 1
        /\ InnerLoop(now + arrival.delay)
    /\ UNCHANGED <<book, params, others, calc_volatility, running,
                   process_times, retry_count, feed>>

\* WsRecvRejected leaving the connection and counting the failure as a retry
WsRecvRejectedReconnects ==
    /\ ws_pc = "recv"
    /\ \E arrival \in Offered :
        /\ arrival.decodable
        /\ LET u == update(orderbook, arrival.data, now + arrival.delay)
           IN  /\ u.raised
               /\ orderbook' = u.ob
               /\ asks_from' = IF u.asks_set THEN recv_count + 1 ELSE asks_from
               /\ bids_from' = IF u.bids_set THEN recv_count + 1 ELSE bids_from
        /\ now' = now + arrival.delay
        /\ recv_count' = recv_count + 1
    /\ retry_count' = retry_count + 1
    /\ ws_pc' = "loop"
    /\ UNCHANGED <<applied_from, params, others, calc_volatility, running,
                   process_times, last_tick_time, start_time, feed>>

\* line 224 returns a snapshot and update raises: lines 243-245
WsRecvRejected ==
    /\ ws_pc = "recv"
    /\ \E arrival \in Offered :
        /\ arrival.decodable
        /\ LET u == update(orderbook, arrival.data, now + arrival.delay)
           IN  /\ u.raised
               /\ orderbook' = u.ob
               /\ asks_from' = IF u.asks_set THEN recv_count + 1 ELSE asks_from
               /\ bids_from' = IF u.bids_set THEN recv_count + 1 ELSE bids_from
        /\ now' = now + arrival.delay
        /\ recv_count' = recv_count + 1
    /\ ws_pc' = "sleep"
    /\ UNCHANGED <<applied_from, params, others, calc_volatility, running,
                   process_times, last_tick_time, retry_count, start_time,
                   feed>>

\* line 224 returns a snapshot and update returns: lines 227-235
WsRecvApplied ==
    /\ ws_pc = "recv"
    /\ \E arrival \in Offered :
        /\ arrival.decodable
        /\ LET u == update(orderbook, arrival.data, now + arrival.delay)
           IN  /\ ~u.raised
               /\ orderbook' = u.ob
        /\ asks_from' = recv_count + 1
        /\ bids_from' = recv_count + 1
        /\ applied_from' = recv_count + 1
        /\ calc_volatility' = volatility
        /\ process_times' =
             RecordProcessTime(process_times,
                               (now + arrival.delay - start_time) * 1000)
        /\ now' = now + arrival.delay
        /\ recv_count' = recv_count + 1
        /\ InnerLoop(now + arrival.delay)
    /\ UNCHANGED <<params, others, running, retry_count, feed>>

\* line 245 returns
WsSleepWake ==
    /\ ws_pc = "sleep"
    /\ InnerLoop(now)
    /\ UNCHANGED <<book, params, others, calc_volatility, running,
                   process_times, retry_count, now, feed, recv_count>>

connect_websocket ==
    \/ WsLoop
    \/ WsConnected
    \/ WsConnectFailed
    \/ WsRetryWake
    \/ WsConnectionClosed
    \/ WsRecvUndecodable
    \/ WsRecvRejected
    \/ WsRecvApplied
    \/ WsSleepWake

----------------------------------------------------------------------------
(* update_ui.                                                              *)

\* UiTick with a liquidity walk that removes the level it starts from
UiTickDrainsBook ==
    /\ ui_pc = "loop"
    /\ running
    /\ LET shows_book == orderbook.asks # <<>> /\ orderbook.bids # <<>>
           r == get_simulation_results
       IN  /\ results' = IF (shows_book /\ RIsZero(orderbook.bids[1][1]))
                            \/ r.cost.raised
                         THEN results
                         ELSE <<r>>
           /\ orderbook' = IF shows_book
                           THEN [orderbook EXCEPT !.asks = Tail(@)]
                           ELSE orderbook
    /\ UNCHANGED <<asks_from, bids_from, applied_from, params, calc_volatility,
                   running, process_times, last_tick_time, ws_pc, retry_count,
                   start_time, ui_pc, ev_pc, main_pc, now, feed, recv_count>>

\* lines 333-364: one report tick.  An exception raised on the way (a zero
\* best bid at line 338, or get_simulation_results raising) is caught at
\* line 361 and leaves the previous report in place.
UiTick ==
    /\ ui_pc = "loop"
    /\ running
    /\ LET shows_book == orderbook.asks # <<>> /\ orderbook.bids # <<>>
           r == get_simulation_results
       IN  results' = IF (shows_book /\ RIsZero(orderbook.bids[1][1]))
                         \/ r.cost.raised
                      THEN results
                      ELSE <<r>>
    /\ UNCHANGED <<book, params, calc_volatility, running, process_times,
                   last_tick_time, ws_pc, retry_count, start_time, ui_pc,
                   ev_pc, main_pc, now, feed, recv_count>>

\* line 333 finds running False
UiStop ==
    /\ ui_pc = "loop"
    /\ ~running
    /\ ui_pc' = "done"
    /\ UNCHANGED <<book, params, calc_volatility, running, process_times,
                   last_tick_time, ws_pc, retry_count, start_time, ev_pc,
                   main_pc, results, now, feed, recv_count>>

update_ui == UiTick \/ UiStop

----------------------------------------------------------------------------
(* handle_events.  Its while condition is never found False: only its own  *)
(* Exit branch, which leaves the loop by break, and main's finally (which  *)
(* runs after the task has ended) clear running.                           *)

\* what the window's input fields may hold when Apply is pressed
Forms ==
    {[QUANTITY |-> "250", VOLATILITY |-> "5", FEE_TIER |-> "vip5",
      ORDER_TYPE |-> "limit"],
     [QUANTITY |-> "250", VOLATILITY |-> "high", FEE_TIER |-> "gold",
      ORDER_TYPE |-> "limit"],
     [QUANTITY |-> "", VOLATILITY |-> "5", FEE_TIER |-> "vip5",
      ORDER_TYPE |-> "limit"]}

\* lines 375-384: the Apply button; float() raising ends the assignments
EvApply ==
    /\ ev_pc = "loop"
    /\ running
    /\ \E values \in Forms :
        IF ~IsNumeric(values.QUANTITY)
        THEN UNCHANGED params
        ELSE /\ quantity' = Float(values.QUANTITY)
             /\ IF ~IsNumeric(values.VOLATILITY)
                THEN UNCHANGED <<volatility, fee_tier, order_type>>
                ELSE /\ volatility' = RDiv(Float(values.VOLATILITY), R(100))
                     /\ fee_tier' = values.FEE_TIER
                     /\ order_type' = values.ORDER_TYPE
    /\ UNCHANGED <<book, calc_volatility, running, process_times,
                   last_tick_time, ws_pc, retry_count, start_time, ui_pc,
                   ev_pc, main_pc, results, now, feed, recv_count>>

\* lines 371-373: Exit or the window being closed
EvExit ==
    /\ ev_pc = "loop"
    /\ running
    /\ running' = FALSE
    /\ ev_pc' = "done"
    /\ UNCHANGED <<book, params, calc_volatility, process_times,
                   last_tick_time, ws_pc, retry_count, start_time, ui_pc,
                   main_pc, results, now, feed, recv_count>>

handle_events == EvApply \/ EvExit

----------------------------------------------------------------------------
(* main.                                                                   *)

\* lines 401-413: gather returns once the three tasks have ended
MainFinally ==
    /\ main_pc = "gather"
    /\ ws_pc = "done" /\ ui_pc = "done" /\ ev_pc = "done"
    /\ running' = FALSE
    /\ main_pc' = "closed"
    /\ UNCHANGED <<book, params, calc_volatility, process_times,
                   last_tick_time, ws_pc, retry_count, start_time, ui_pc,
                   ev_pc, results, now, feed, recv_count>>

----------------------------------------------------------------------------
(* The application on a live feed, and the ingestion task alone on a       *)
(* replayed feed.                                                          *)

Next == connect_websocket \/ update_ui \/ handle_events \/ MainFinally

Spec == Init /\ [][Next]_vars

SpecReplay == InitReplay /\ [][connect_websocket]_vars

----------------------------------------------------------------------------
(* Claims.                                                                 *)

\* the step of connect_websocket in which update raised on a snapshot
UpdateRejected == ws_pc = "recv" /\ ws_pc' = "sleep"

\* the step of connect_websocket in which update returned on a snapshot
UpdateApplied == applied_from' # applied_from

\* C1: OrderBook.update on a malformed snapshot (unparseable timestamp,
\* missing field, non-numeric price or quantity) fails and leaves every
\* field of the order book as it was before the call.
C1_RejectedUpdateLeavesBook ==
    [][UpdateRejected => orderbook' = orderbook]_vars

\* C2: at every point where a reader can run, the stored asks and bids both
\* come from one and the same fully applied snapshot (or both from
\* construction); asks newer than bids, or the reverse, is never observable.
C2_BookFromOneAppliedSnapshot ==
    /\ asks_from = bids_from
    /\ asks_from = applied_from

\* C4: while streaming, every snapshot application attempt appends one
\* duration sample to the latency window, also when update fails on a
\* malformed snapshot.
C4_EveryAttemptMeasured ==
    [][(UpdateRejected \/ UpdateApplied) =>
          process_times' =
            RecordProcessTime(process_times, (now' - start_time) * 1000)]_vars

\* C6: once running is False, no snapshot is applied afterwards: a message
\* received after the stop changes neither the book nor its histories nor
\* the latency window.
C6_NothingAppliedAfterStop ==
    [][~running => (orderbook' = orderbook /\ process_times' = process_times)]_vars

\* the four history series have one length, at most max_history
HistoryLengthsOk ==
    /\ Len(orderbook.price_history) <= max_history
    /\ Len(orderbook.spread_history) = Len(orderbook.price_history)
    /\ Len(orderbook.mid_price_history) = Len(orderbook.price_history)
    /\ Len(orderbook.volume_history) = Len(orderbook.price_history)

HistoryChanged ==
    \/ orderbook'.price_history # orderbook.price_history
    \/ orderbook'.spread_history # orderbook.spread_history
    \/ orderbook'.mid_price_history # orderbook.mid_price_history
    \/ orderbook'.volume_history # orderbook.volume_history

\* C3: after any sequence of updates (valid, one-sided or failing) the
\* history series all have the same length, at most 300, and only an update
\* that returns with both asks and bids non-empty adds a point: a one-sided
\* or failed update changes no series, and a series grows by one at most.
C3_HistoryAligned ==
    /\ []HistoryLengthsOk
    /\ [][/\ HistoryChanged =>
               /\ UpdateApplied
               /\ orderbook'.asks # <<>>
               /\ orderbook'.bids # <<>>
          /\ Len(orderbook'.price_history) <= Len(orderbook.price_history) + 1]_vars

\* a failed update has just left a full history as it was
C3_Witness ==
    /\ Len(orderbook.price_history) = max_history
    /\ ws_pc = "sleep"
    /\ applied_from < recv_count

\* C5: for every reachable book of positive prices and non-negative
\* quantities and every order notional > 0, fee tier and side, get_net_cost
\* returns a report and never raises (no division by zero).
C5_NetCostNeverRaises ==
    \A qty \in {R(100), R(250)}, tier \in {"vip0", "vip5"}, side \in {"buy", "sell"} :
        ~get_net_cost(orderbook, calc_volatility, qty, tier, side).raised

EmptyBook == orderbook.asks = <<>> /\ orderbook.bids = <<>>

C8_ReportUsesLatestInputs ==
    [][UiTick =>
          results' = <<[cost |-> get_net_cost(orderbook, volatility, quantity,
                                              fee_tier, "buy"),
                        performance |-> get_performance_metrics(process_times)]>>]_vars

NonDecreasing(levels) ==
    \A i \in 1..(Len(levels) - 1) : RLe(levels[i][1], levels[i + 1][1])

NonIncreasing(levels) ==
    \A i \in 1..(Len(levels) - 1) : RLe(levels[i + 1][1], levels[i][1])

\* C9: after every successful update, whatever the order of the snapshot's
\* levels, asks is non-decreasing by price, bids is non-increasing by price
\* and each side holds at most 50 levels.
C9_SortedAndTruncated ==
    [][UpdateApplied =>
          /\ NonDecreasing(orderbook'.asks)
          /\ NonIncreasing(orderbook'.bids)
          /\ Len(orderbook'.asks) <= MAX_ORDERBOOK_LEVELS
          /\ Len(orderbook'.bids) <= MAX_ORDERBOOK_LEVELS]_vars

\* a snapshot of more than 50 unsorted ask levels has just been applied
C9_Witness ==
    /\ applied_from = recv_count
    /\ Len(orderbook.asks) = MAX_ORDERBOOK_LEVELS
    /\ Len(orderbook.bids) > 1
    /\ orderbook.asks[1][1] = R(1002)

----------------------------------------------------------------------------
(* The history points of the replayed session, one update at a time.       *)

\* time.time() when the i-th message of the replay has arrived
ReplayTime(i) == i + ((i + 1) \div 2)

\* the history point the i-th message of the replay adds, <<>> if none: the
\* orderings offered for one message give the same book
ReplayPoints ==
    [i \in 1..ReplayLen |->
        LET arrival == CHOOSE a \in ReplayOffers(i) : TRUE
            u == update(NewOrderBook(0), arrival.data, ReplayTime(i))
        IN  IF arrival.decodable /\ ~u.raised /\ u.ob.price_history # <<>>
            THEN <<[price |-> u.ob.price_history[1],
                    spread |-> u.ob.spread_history[1],
                    mid_price |-> u.ob.mid_price_history[1],
                    volume |-> u.ob.volume_history[1]]>>
            ELSE <<>>]

\* how many of the first n messages add a history point
PointsUpTo ==
    [n \in 0..ReplayLen |-> Cardinality({i \in 1..n : ReplayPoints[i] # <<>>})]

\* the message that adds the k-th history point
PointIndex ==
    [k \in 1..PointsUpTo[ReplayLen] |->
        CHOOSE i \in 1..ReplayLen :
            ReplayPoints[i] # <<>> /\ PointsUpTo[i] = k]

\* C10: after n valid two-sided updates each history series holds exactly
\* the latest min(n, 300) points in arrival order, the i-th entry of every
\* series stemming from the same update; after 301 consecutive updates the
\* length is 300 and the oldest point is gone.
C10_LatestPointsInOrder ==
    LET n == PointsUpTo[recv_count]
        len == IF n < max_history THEN n ELSE max_history
        Point(i) == ReplayPoints[PointIndex[n - len + i]][1]
    IN  /\ Len(orderbook.price_history) = len
        /\ Len(orderbook.spread_history) = len
        /\ Len(orderbook.mid_price_history) = len
        /\ Len(orderbook.volume_history) = len
        /\ \A i \in 1..len :
            /\ orderbook.price_history[i] = Point(i).price
            /\ orderbook.spread_history[i] = Point(i).spread
            /\ orderbook.mid_price_history[i] = Point(i).mid_price
            /\ orderbook.volume_history[i] = Point(i).volume

\* the 301st of a run of consecutive two-sided updates has been applied:
\* the series are full and start with the second update of the run
C10_Witness ==
    /\ recv_count = 328
    /\ applied_from = recv_count
    /\ Len(orderbook.price_history) = max_history
    /\ orderbook.price_history[1][1] = ReplayTime(29)
    /\ orderbook.price_history[max_history][1] = ReplayTime(328)

----------------------------------------------------------------------------
(* The replayed session, one message at a time.                            *)

\* update returns on the i-th message of the replay (whether update raises
\* does not depend on the book it is applied to)
ReplayValid ==
    [i \in 1..ReplayLen |->
        \A a \in ReplayOffers(i) :
            a.decodable /\ ~update(NewOrderBook(0), a.data, 0).raised]

\* the step in which recv returned a message that was not applied
MessageFailed == recv_count' = recv_count + 1 /\ applied_from' = applied_from

\* C11: a malformed or undecodable message does not end ingestion: the task
\* stays on the same connection (it goes on to the next recv, through the
\* one-second sleep after a rejected snapshot), the failure is not counted
\* as a connection retry, and the next valid snapshot received is applied.
C11_FailureKeepsIngesting ==
    /\ [][MessageFailed =>
             /\ ws_pc' \in {"recv", "sleep"}
             /\ retry_count' = retry_count]_vars
    /\ [][ws_pc = "sleep" =>
             /\ ws_pc' = "recv"
             /\ retry_count' = retry_count
             /\ recv_count' = recv_count]_vars
    /\ [][(recv_count' = recv_count + 1 /\ ReplayValid[recv_count + 1]) =>
             /\ applied_from' = recv_count + 1
             /\ orderbook'.last_update_time = now']_vars

\* a rejected snapshot, then an undecodable text, then a valid snapshot that
\* has been applied
C11_Witness ==
    /\ recv_count = 16
    /\ applied_from = 16
    /\ ~ReplayValid[14]
    /\ ~ReplayValid[15]
    /\ ws_pc = "recv"
    /\ retry_count = 0

\* C12: no cost computation or liquidity walk changes a field of the order
\* book: a report tick, which evaluates get_simulation_results and with it
\* every computation of the calculator, leaves asks, bids, timestamps and
\* all history series as they were.
C12_EvaluationLeavesBook ==
    [][UiTick => orderbook' = orderbook]_vars

\* a report has been computed by walking a two-sided book
C12_Witness ==
    /\ results # <<>>
    /\ results[1].cost.maker_pct.kind = "maker"
    /\ orderbook.asks # <<>>
    /\ orderbook.bids # <<>>
    /\ orderbook.price_history # <<>>

\* how many of the first n messages of the replay are applied
AppliedUpTo ==
    [n \in 0..ReplayLen |-> Cardinality({i \in 1..n : ReplayValid[i]})]

\* the message that is the k-th one applied
AppliedIndex ==
    [k \in 1..AppliedUpTo[ReplayLen] |->
        CHOOSE i \in 1..ReplayLen : ReplayValid[i] /\ AppliedUpTo[i] = k]

\* the duration sample of the i-th message, in ms: the time recv waited for
\* it (start_time is taken when the task enters recv)
ReplaySample(i) == (CHOOSE a \in ReplayOffers(i) : TRUE).delay * 1000

\* C13: the latency window never holds more than 100 samples and after n
\* recorded samples holds exactly the latest min(n, 100) in arrival order;
\* get_performance_metrics returns the average, maximum and minimum of the
\* window, and 0 for all three when it is empty.
C13_LatencyWindow ==
    LET n == AppliedUpTo[recv_count]
        len == IF n < MaxProcessTimes THEN n ELSE MaxProcessTimes
        metrics == get_performance_metrics(process_times)
        count(x) == Cardinality({i \in 1..len : process_times[i] = x})
    IN  /\ Len(process_times) = len
        /\ Len(process_times) <= MaxProcessTimes
        /\ \A i \in 1..len :
              process_times[i] = ReplaySample(AppliedIndex[n - len + i])
        /\ IF len = 0
           THEN metrics = [avg_latency |-> R(0), max_latency |-> 0,
                           min_latency |-> 0]
           ELSE /\ count(1000) + count(2000) = len
                /\ metrics.avg_latency[1] * len =
                       metrics.avg_latency[2] * (1000 * count(1000) + 2000 * count(2000))
                /\ metrics.max_latency = IF count(2000) > 0 THEN 2000 ELSE 1000
                /\ metrics.min_latency = IF count(1000) > 0 THEN 1000 ELSE 2000

\* more than 100 samples have been recorded: the window is full and its
\* oldest sample is no longer the first one recorded
C13_Witness ==
    /\ AppliedUpTo[recv_count] = MaxProcessTimes + 2
    /\ applied_from = recv_count
    /\ Len(process_times) = MaxProcessTimes
    /\ process_times[1] = ReplaySample(AppliedIndex[3])
    /\ process_times[1] # process_times[2]

\* C14: for every book and order notional, calculate_fees with a tier that
\* is not one of vip0..vip5 in any letter case returns the fee of "vip0",
\* and a known tier written in another letter case returns the fee of its
\* lower-case form.
C14_FeeTierLookup ==
    \A qty \in {R(100), R(250)} :
        /\ \A tier \in {"gold", "", "VIP9", "market"} :
              calculate_fees(orderbook, qty, tier) =
                  calculate_fees(orderbook, qty, "vip0")
        /\ \A pair \in {<<"VIP0", "vip0">>, <<"VIP1", "vip1">>, <<"Vip5", "vip5">>} :
              calculate_fees(orderbook, qty, pair[1]) =
                  calculate_fees(orderbook, qty, pair[2])

\* a two-sided book, on which the fee of a known tier in upper case is not
\* the fee of vip0
C14_Witness ==
    /\ orderbook.asks # <<>>
    /\ orderbook.bids # <<>>
    /\ applied_from = recv_count
    /\ calculate_fees(orderbook, R(100), "VIP1").value.maker_pct.kind = "maker"
    /\ calculate_fees(orderbook, R(100), "VIP1") #
           calculate_fees(orderbook, R(100), "vip0")

\* C15: calculate_market_impact takes the average of the last 10
\* near-touch-volume samples times 86400 as the daily volume estimate
\* whenever at least 10 samples exist, and the fallback marketCap * 0.05
\* only when fewer than 10 exist.
C15_AverageFromTenSamples ==
    LET samples == Volumes(orderbook.volume_history)
        recent == Last(samples, RecentVolumes)
    IN  DailyVolumeEstimate(orderbook) =
            IF Len(samples) >= RecentVolumes
            THEN RMul(RDiv(RSum(recent), R(RecentVolumes)), R(SecondsPerDay))
            ELSE R(FallbackDailyVolume)

\* the book with the side a walk for `side` does not select replaced
WithOpposite(ob, side, levels) ==
    IF side = "buy" THEN [ob EXCEPT !.bids = levels]
                    ELSE [ob EXCEPT !.asks = levels]

\* C16: the result of get_liquidity_at_level(X, side) is determined by X and
\* the levels of the selected side alone: the result on the book, whose
\* opposite side may be empty, is the result on the same book with other
\* levels on the opposite side, so (0, 0) is returned only when nothing can
\* be executed on the selected side.
C16_WalkReadsSelectedSideOnly ==
    \A X \in {R(0), R(100), R(5000)}, side \in {"buy", "sell"} :
        \A levels \in {<<<<R(1000), R(1)>>>>, <<<<R(2), R(7)>>, <<R(1), R(1)>>>>} :
            get_liquidity_at_level(orderbook, X, side) =
                get_liquidity_at_level(WithOpposite(orderbook, side, levels), X, side)

\* what a walk for X that consumes the levels best price first executes:
\* from each level the notional left once every better-priced level (and
\* every earlier level of the same price) is consumed in full
BestFirstQuantity(levels, X, side) ==
    LET n == Len(levels)
        volume(i) == RMul(levels[i][1], levels[i][2])
        better(j, i) ==
            \/ IF side = "buy" THEN RLt(levels[j][1], levels[i][1])
                               ELSE RLt(levels[i][1], levels[j][1])
            \/ levels[j][1] = levels[i][1] /\ j < i
        before(i) == RSum([j \in 1..n |-> IF better(j, i) THEN volume(j) ELSE R(0)])
        left(i) == RSub(X, before(i))
        take(i) == IF RLe(left(i), R(0)) THEN R(0) ELSE RMin(left(i), volume(i))
    IN  RSum([i \in 1..n |-> RDiv(take(i), levels[i][1])])

\* C17: on a two-sided book and for X >= 0 the liquidity walk consumes the
\* levels best price first and the notional it consumes (executed quantity
\* times average price) is min(X, notional of the selected side): a shallow
\* side gives a partial fill without error, and X = 0 gives (0, 0).
C17_WalkBestPriceFirst ==
    (orderbook.asks # <<>> /\ orderbook.bids # <<>>) =>
        \A X \in {R(0), R(100), R(1500), R(5000), R(100000)},
           side \in {"buy", "sell"} :
            LET levels == IF side = "buy" THEN orderbook.asks ELSE orderbook.bids
                total == RSum([i \in 1..Len(levels) |->
                                  RMul(levels[i][1], levels[i][2])])
                r == get_liquidity_at_level(orderbook, X, side)
            IN  /\ ~r.raised
                /\ IF RLt(R(0), r.executed_quantity)
                   THEN r.avg_price = RDiv(RMin(X, total), r.executed_quantity)
                   ELSE r.avg_price = R(0) /\ RIsZero(RMin(X, total))
                /\ r.executed_quantity = BestFirstQuantity(levels, X, side)
                /\ RIsZero(X) => (r.avg_price = R(0) /\ r.executed_quantity = R(0))

\* the fee of a report is weighted with the split the report carries, and
\* its net cost is the sum of its own slippage, fee and market impact
ReportConsistent(cost) ==
    /\ cost.fee_pct.maker_pct = cost.maker_pct
    /\ cost.fee_pct.taker_pct = cost.taker_pct
    /\ \E tier \in DOMAIN fee_structure :
          /\ cost.fee_pct.maker_fee =
                 Rat(fee_structure[tier].maker[1], fee_structure[tier].maker[2])
          /\ cost.fee_pct.taker_fee =
                 Rat(fee_structure[tier].taker[1], fee_structure[tier].taker[2])
    /\ cost.net_cost_pct = [slippage_pct |-> cost.slippage_pct,
                            fee_pct |-> cost.fee_pct,
                            market_impact_pct |-> cost.market_impact_pct]

\* C18: every report is computed against a single book state even while
\* snapshots are applied between the report ticks: its fee is weighted with
\* the maker and taker percentages of that same report, its net cost is the
\* sum of its own three components, and all its components are those of the
\* book as it is at the tick.
C18_ReportFromOneBook ==
    /\ [](results # <<>> => ReportConsistent(results[1].cost))
    /\ [][UiTick =>
             \/ results' = results
             \/ LET cost == results'[1].cost
                    split == estimate_maker_taker_proportion(orderbook, quantity)
                IN  /\ cost.maker_pct = split.maker_pct
                    /\ cost.taker_pct = split.taker_pct
                    /\ cost.fee_pct.maker_pct = split.maker_pct
                    /\ cost.fee_pct.taker_pct = split.taker_pct
                    /\ cost.slippage_pct =
                           calculate_slippage(orderbook, quantity, "buy").value
                    /\ cost.market_impact_pct =
                           calculate_market_impact(orderbook, calc_volatility,
                                                   quantity, "buy").value]_vars

\* a report computed on a two-sided book is still on display after the next
\* snapshot, an empty one, has been applied
C18_Witness ==
    /\ results # <<>>
    /\ results[1].cost.maker_pct.kind = "maker"
    /\ applied_from = 2
    /\ orderbook.asks = <<>>
    /\ orderbook.bids = <<>>

\* C19: in connect_websocket the count of consecutive failed connection
\* attempts never exceeds 5; a successful connection resets it to 0 and only
\* a failed attempt increments it; when it reaches 5 the ingestion task ends
\* for good, and the other tasks keep running on the book as last applied.
C19_RetriesBounded ==
    /\ [](retry_count \in 0..max_retries)
    /\ [](retry_count = max_retries => ws_pc = "done")
    /\ [][retry_count' # retry_count =>
             /\ ws_pc = "connecting"
             /\ \/ retry_count' = 0 /\ ws_pc' \in {"recv", "loop"}
                \/ /\ retry_count' = retry_count + 1
                   /\ ws_pc' \in {"retry_sleep", "done"}]_vars
    /\ [][(ws_pc = "connecting" /\ ws_pc' \in {"recv", "loop"}) =>
             retry_count' = 0]_vars
    /\ [][ws_pc = "done" =>
             /\ ws_pc' = "done"
             /\ retry_count' = retry_count
             /\ recv_count' = recv_count
             /\ orderbook' = orderbook]_vars
    /\ [][(retry_count # max_retries /\ retry_count' = max_retries) =>
             /\ running' = running
             /\ ui_pc' = ui_pc
             /\ ev_pc' = ev_pc
             /\ orderbook' = orderbook]_vars

\* the fifth attempt in a row has failed after a snapshot was applied; the
\* application is still running and reporting
C19_Witness ==
    /\ retry_count = max_retries
    /\ ws_pc = "done"
    /\ running
    /\ ui_pc = "loop"
    /\ ev_pc = "loop"
    /\ applied_from > 0
    /\ results # <<>>

====
